---- MODULE Spec2Model ----
(***************************************************************************)
(* A model of expense_tracker.py: the JSON store (load_data / save_data),  *)
(* the validation helpers, the eight command handlers dispatched by main,  *)
(* the pure filter, and the step-by-step save of concurrent processes.     *)
(*                                                                         *)
(* Text is a sequence of one-character strings.  An amount given on the    *)
(* command line is an integer number of thousandths; a validated (stored)  *)
(* amount is an integer number of hundredths.                              *)
(***************************************************************************)
EXTENDS Integers, Sequences, FiniteSets, TLC

VARIABLES
    file,       \* the primary data file  ~/.expense_tracker/data.json
    bak,        \* its sibling data.bak
    last,       \* the command that ran last: its name, outcome, whether it saved
    assigned,   \* every id an add has handed out (history)
    fl,         \* one call of filter_expenses: inputs, position, result
    fs,         \* concurrent save: the directory (path -> inode) and the inodes
    procs       \* concurrent save: each process's position in save_data

vars == <<file, bak, last, assigned, fl, fs, procs>>

(***************************************************************************)
(* Bounds of the model.                                                    *)
(***************************************************************************)
MaxId == 3          \* Spec: add runs while the id it would assign is <= MaxId
MaxUpd == 2         \* SpecUpdate: add runs while the id it would assign is <= MaxUpd
MaxOne == 1         \* SpecFields: add runs while the id it would assign is <= MaxOne
MaxList == 2        \* longest expense list handed to filter_expenses
MaxStrLen == 2      \* longest description / category typed in SpecFields
MaxAmount == 6      \* largest amount (thousandths) typed in SpecFields
MaxSaves == 2       \* SpecConc: saves each process performs
NProcs == 2         \* SpecConc: processes running commands at the same time
NParts == 2         \* SpecConc: write() calls that carry one serialized document

(***************************************************************************)
(* Text helpers.                                                           *)
(***************************************************************************)
Whitespace == {" "}

\* Code-point order of the characters the model uses.
Alphabet == <<" ", "-", "0", "1", "2", "3", "4", "5", "6", "7", "8", "9", "A", "B", "a", "b">>

Code(c) == CHOOSE i \in 1..Len(Alphabet) : Alphabet[i] = c

\* str < str of Python: lexicographic by code point, a proper prefix is smaller.
RECURSIVE StrLess(_, _)
StrLess(s, t) ==
    IF t = <<>> THEN FALSE
    ELSE IF s = <<>> THEN TRUE
    ELSE IF Head(s) # Head(t) THEN Code(Head(s)) < Code(Head(t))
    ELSE StrLess(Tail(s), Tail(t))

RECURSIVE LStrip(_)
LStrip(s) == IF s # <<>> /\ Head(s) \in Whitespace THEN LStrip(Tail(s)) ELSE s

RECURSIVE RStrip(_)
RStrip(s) ==
    IF s # <<>> /\ s[Len(s)] \in Whitespace THEN RStrip(SubSeq(s, 1, Len(s) - 1)) ELSE s

\* str.strip()
strip(s) == RStrip(LStrip(s))

LowerChar(c) == IF c = "A" THEN "a" ELSE IF c = "B" THEN "b" ELSE c

\* str.lower()
lower(s) == [i \in 1..Len(s) |-> LowerChar(s[i])]

\* str.startswith(prefix)
startswith(s, prefix) == Len(s) >= Len(prefix) /\ SubSeq(s, 1, Len(prefix)) = prefix

Digits == <<"0", "1", "2", "3", "4", "5", "6", "7", "8", "9">>

RECURSIVE DecStr(_)
DecStr(n) == IF n < 10 THEN <<Digits[n + 1]>> ELSE DecStr(n \div 10) \o <<Digits[(n % 10) + 1]>>

RECURSIVE ZeroPad(_, _)
ZeroPad(s, w) == IF Len(s) >= w THEN s ELSE ZeroPad(<<"0">> \o s, w)

\* format(n, "0wd") for n >= 0
Fmt(n, w) == ZeroPad(DecStr(n), w)

\* All texts over chars of length at most n.
RECURSIVE Texts(_, _)
Texts(chars, n) ==
    IF n = 0 THEN {<<>>}
    ELSE LET shorter == Texts(chars, n - 1)
         IN  shorter \cup {Append(s, c) : s \in shorter, c \in chars}

(***************************************************************************)
(* Optional values: Python's None against a string or a number.            *)
(***************************************************************************)
None == [null |-> TRUE, s |-> <<>>]
Str(s) == [null |-> FALSE, s |-> s]
NoAmount == [null |-> TRUE, n |-> 0]
Amount(n) == [null |-> FALSE, n |-> n]

\* Python truthiness of an optional string: None and "" are falsy.
Truthy(o) == ~o.null /\ o.s # <<>>

(***************************************************************************)
(* Dates.  A --date argument is absent, the empty string, text that        *)
(* strptime reads as year-month-day numbers, or text it does not match.    *)
(***************************************************************************)
NoDate == [kind |-> "none", y |-> 0, m |-> 0, d |-> 0]
EmptyDate == [kind |-> "empty", y |-> 0, m |-> 0, d |-> 0]
GarbageDate == [kind |-> "garbage", y |-> 0, m |-> 0, d |-> 0]
Ymd(y, m, d) == [kind |-> "ymd", y |-> y, m |-> m, d |-> d]

\* date.today()
Today == [y |-> 2024, m |-> 3, d |-> 15]

IsLeap(y) == (y % 4 = 0 /\ y % 100 # 0) \/ y % 400 = 0

DaysInMonth(y, m) ==
    IF m = 2 THEN (IF IsLeap(y) THEN 29 ELSE 28)
    ELSE IF m \in {4, 6, 9, 11} THEN 30 ELSE 31

\* date.isoformat()
isoformat(y, m, d) == Fmt(y, 4) \o <<"-">> \o Fmt(m, 2) \o <<"-">> \o Fmt(d, 2)

\* parse_date: [err, val].  A falsy value (None or "") gives today.
parse_date(value) ==
    IF value.kind \in {"none", "empty"}
    THEN [err |-> FALSE, val |-> isoformat(Today.y, Today.m, Today.d)]
    ELSE IF /\ value.kind = "ymd"
            /\ value.y \in 1..9999
            /\ value.m \in 1..12
            /\ value.d \in 1..DaysInMonth(value.y, value.m)
    THEN [err |-> FALSE, val |-> isoformat(value.y, value.m, value.d)]
    ELSE [err |-> TRUE, val |-> <<>>]

\* month_to_ym: [err, y, m]
month_to_ym(month, year) ==
    IF month < 1 \/ month > 12
    THEN [err |-> TRUE, y |-> 0, m |-> 0]
    ELSE [err |-> FALSE, y |-> year, m |-> month]

\* Mutant of ym_key: the month is not zero-padded.
ym_key_unpadded(year, month) == Fmt(year, 4) \o <<"-">> \o DecStr(month)

ym_key(year, month) == Fmt(year, 4) \o <<"-">> \o Fmt(month, 2)

(***************************************************************************)
(* Amounts.  round(x, 2) of a float x written with three decimals rounds   *)
(* the binary double nearest to x: a last digit below 5 goes down, above 5 *)
(* goes up, and a last digit of 5 goes the way the double lies from the    *)
(* decimal.  TieUp lists the thousandths below 400 ending in 5 that go up. *)
(***************************************************************************)
TieUp == {5, 25, 35, 55, 65, 85, 95, 115, 135, 165, 195, 225, 255, 265, 275,
          315, 325, 335, 375, 385, 395}

\* round(float(amount), 2) for amount >= 0 in thousandths, result in hundredths
round2(amount) ==
    LET q == amount \div 10
        r == amount % 10
    IN  IF r < 5 THEN q
        ELSE IF r > 5 THEN q + 1
        ELSE IF amount \in TieUp THEN q + 1 ELSE q

\* validate_amount: [err, val]
validate_amount(amount) ==
    IF amount <= 0
    THEN [err |-> TRUE, val |-> 0]
    ELSE [err |-> FALSE, val |-> round2(amount)]

(***************************************************************************)
(* The store.  The primary file is absent, or holds bytes that are not     *)
(* UTF-8 ("undecodable"), text that is not JSON ("corrupt"), JSON whose    *)
(* top level is not an object ("nonobject"), or a JSON object ("doc") with *)
(* the keys in has.                                                        *)
(***************************************************************************)
Keys == {"next_id", "expenses", "budgets"}

FileAbsent ==
    [kind |-> "absent", has |-> {}, next_id |-> 0, expenses |-> <<>>, budgets |-> <<>>]

Blob(kind) ==
    [kind |-> kind, has |-> {}, next_id |-> 0, expenses |-> <<>>, budgets |-> <<>>]

DefaultData == [next_id |-> 1, expenses |-> <<>>, budgets |-> <<>>]

\* Mutant of load_data: the backfilled keys are written back to the file.
load_data_persisting_defaults(st, renameOk) ==
    IF st.file.kind = "doc"
    THEN LET data == [next_id |-> IF "next_id" \in st.file.has THEN st.file.next_id ELSE 1,
                      expenses |-> IF "expenses" \in st.file.has THEN st.file.expenses ELSE <<>>,
                      budgets |-> IF "budgets" \in st.file.has THEN st.file.budgets ELSE <<>>]
         IN  [raised |-> FALSE, data |-> data,
              file |-> [kind |-> "doc", has |-> Keys, next_id |-> data.next_id,
                        expenses |-> data.expenses, budgets |-> data.budgets],
              bak |-> st.bak]
    ELSE IF st.file.kind = "corrupt"
    THEN [raised |-> FALSE, data |-> [next_id |-> 1, expenses |-> <<>>, budgets |-> <<>>],
          file |-> IF renameOk THEN [st.file EXCEPT !.kind = "absent"] ELSE st.file,
          bak |-> IF renameOk THEN st.file ELSE st.bak]
    ELSE [raised |-> st.file.kind # "absent",
          data |-> [next_id |-> 1, expenses |-> <<>>, budgets |-> <<>>],
          file |-> st.file, bak |-> st.bak]

\* load_data: [raised, data, file, bak].  renameOk: whether path.replace(backup)
\* succeeds; its failure is swallowed.
load_data(st, renameOk) ==
    IF st.file.kind = "absent"
    THEN [raised |-> FALSE, data |-> DefaultData, file |-> st.file, bak |-> st.bak]
    ELSE IF st.file.kind = "undecodable"
    THEN \* f.read() raises UnicodeDecodeError, which is no JSONDecodeError
         [raised |-> TRUE, data |-> DefaultData, file |-> st.file, bak |-> st.bak]
    ELSE IF st.file.kind = "corrupt"
    THEN [raised |-> FALSE, data |-> DefaultData,
          file |-> IF renameOk THEN FileAbsent ELSE st.file,
          bak |-> IF renameOk THEN st.file ELSE st.bak]
    ELSE IF st.file.kind = "nonobject"
    THEN \* data.setdefault raises AttributeError
         [raised |-> TRUE, data |-> DefaultData, file |-> st.file, bak |-> st.bak]
    ELSE [raised |-> FALSE,
          data |-> [next_id |-> IF "next_id" \in st.file.has THEN st.file.next_id ELSE 1,
                    expenses |-> IF "expenses" \in st.file.has THEN st.file.expenses ELSE <<>>,
                    budgets |-> IF "budgets" \in st.file.has THEN st.file.budgets ELSE <<>>],
          file |-> st.file, bak |-> st.bak]

\* save_data in a single process: the primary file afterwards.
save_data(data) ==
    [kind |-> "doc", has |-> Keys, next_id |-> data.next_id,
     expenses |-> data.expenses, budgets |-> data.budgets]

(***************************************************************************)
(* The result of a handler: the files afterwards, how it ended ("ok",      *)
(* "notfound", "invalid" for a raised ArgumentTypeError, "crash" for any   *)
(* other exception), whether save_data ran, and the id add assigned.       *)
(***************************************************************************)
Ended(ld, outcome) ==
    [file |-> ld.file, bak |-> ld.bak, outcome |-> outcome, saved |-> FALSE, id |-> 0]

Saved(ld, data, id) ==
    [file |-> save_data(data), bak |-> ld.bak, outcome |-> "ok", saved |-> TRUE, id |-> id]

(***************************************************************************)
(* filter_expenses                                                         *)
(***************************************************************************)
\* the sort key (e.get("date", ""), e["id"]) compared as Python compares tuples
KeyLess(a, b) == StrLess(a.date, b.date) \/ (a.date = b.date /\ a.id < b.id)

RECURSIVE InsertSorted(_, _)
InsertSorted(x, s) ==
    IF s = <<>> THEN <<x>>
    ELSE IF KeyLess(x, Head(s)) THEN <<x>> \o s
    ELSE <<Head(s)>> \o InsertSorted(x, Tail(s))

\* sorted(seq, key=...): stable, ascending
RECURSIVE sorted(_)
sorted(s) ==
    IF s = <<>> THEN <<>>
    ELSE InsertSorted(s[Len(s)], sorted(SubSeq(s, 1, Len(s) - 1)))

\* (e.get("category") or "")
CategoryOrEmpty(e) == IF e.category.null THEN <<>> ELSE e.category.s

\* Mutant of ByCategory: the stored category is compared without lower().
ByCategory_case_sensitive(expenses, category) ==
    IF Truthy(category)
    THEN SelectSeq(expenses, LAMBDA e : CategoryOrEmpty(e) = lower(category.s))
    ELSE expenses

ByCategory(expenses, category) ==
    IF Truthy(category)
    THEN SelectSeq(expenses, LAMBDA e : lower(CategoryOrEmpty(e)) = lower(category.s))
    ELSE expenses

MonthPrefix(y, m) == Fmt(y, 4) \o <<"-">> \o Fmt(m, 2) \o <<"-">>

ByMonth(expenses, ym) ==
    SelectSeq(expenses, LAMBDA e : startswith(e.date, MonthPrefix(ym.y, ym.m)))

SortExpenses(expenses) == sorted(expenses)

\* filter_expenses: [err, val]; month is an optional number.
filter_expenses(expenses, category, month) ==
    LET filtered == ByCategory(expenses, category)
    IN  IF month.null
        THEN [err |-> FALSE, val |-> SortExpenses(filtered)]
        ELSE LET ym == month_to_ym(month.n, Today.y)
             IN  IF ym.err
                 THEN [err |-> TRUE, val |-> <<>>]
                 ELSE [err |-> FALSE, val |-> SortExpenses(ByMonth(filtered, ym))]

(***************************************************************************)
(* The mutating handlers.                                                  *)
(***************************************************************************)
\* args.category.strip() if args.category else None
CategoryValue(category) == IF Truthy(category) THEN Str(strip(category.s)) ELSE None

NewExpense(id, date, args, amount) ==
    [id |-> id, date |-> date, description |-> strip(args.description),
     amount |-> amount, category |-> CategoryValue(args.category)]

add_expense(st, args, renameOk) ==
    LET ld == load_data(st, renameOk)
        id == ld.data.next_id
        dt == parse_date(args.date)
        am == validate_amount(args.amount)
    IN  IF ld.raised THEN Ended(ld, "crash")
        ELSE IF dt.err \/ am.err THEN Ended(ld, "invalid")
        ELSE Saved(ld, [ld.data EXCEPT
                            !.expenses = Append(@, NewExpense(id, dt.val, args, am.val)),
                            !.next_id = id + 1], id)

\* the index of next(e for e in data["expenses"] if e["id"] == args.id), 0 if none
FirstWithId(expenses, id) ==
    IF \E i \in 1..Len(expenses) : expenses[i].id = id
    THEN CHOOSE i \in 1..Len(expenses) :
            /\ expenses[i].id = id
            /\ \A j \in 1..(i - 1) : expenses[j].id # id
    ELSE 0

SetDescription(exp, args) ==
    IF args.description.null THEN exp ELSE [exp EXCEPT !.description = strip(args.description.s)]

SetAmount(exp, args, am) ==
    IF args.amount.null THEN exp ELSE [exp EXCEPT !.amount = am.val]

SetDate(exp, args, dt) ==
    IF args.date.kind = "none" THEN exp ELSE [exp EXCEPT !.date = dt.val]

\* Mutant of SetCategory: the "is not None" guard is missing.
SetCategory_unguarded(exp, args) == [exp EXCEPT !.category = CategoryValue(args.category)]

SetCategory(exp, args) ==
    IF args.category.null THEN exp ELSE [exp EXCEPT !.category = CategoryValue(args.category)]

\* Mutant of update_expense: the description is saved before the amount and the
\* date are validated.
update_expense_saving_early(st, args, renameOk) ==
    LET ld == load_data(st, renameOk)
        i == FirstWithId(ld.data.expenses, args.id)
        am == validate_amount(args.amount.n)
        dt == parse_date(args.date)
    IN  IF ld.raised THEN Ended(ld, "crash")
        ELSE IF i = 0 THEN Ended(ld, "notfound")
        ELSE LET early == [ld.data EXCEPT
                              !.expenses[i] = SetDescription(ld.data.expenses[i], args)]
             IN  IF (~args.amount.null /\ am.err) \/ (args.date.kind # "none" /\ dt.err)
                 THEN [Saved(ld, early, 0) EXCEPT !.outcome = "invalid"]
                 ELSE Saved(ld, [early EXCEPT !.expenses[i] =
                                    SetCategory(SetDate(SetAmount(@, args, am), args, dt), args)], 0)

update_expense(st, args, renameOk) ==
    LET ld == load_data(st, renameOk)
        i == FirstWithId(ld.data.expenses, args.id)
        am == validate_amount(args.amount.n)
        dt == parse_date(args.date)
    IN  IF ld.raised THEN Ended(ld, "crash")
        ELSE IF i = 0 THEN Ended(ld, "notfound")
        ELSE IF ~args.amount.null /\ am.err THEN Ended(ld, "invalid")
        ELSE IF args.date.kind # "none" /\ dt.err THEN Ended(ld, "invalid")
        ELSE LET exp == SetCategory(SetDate(SetAmount(SetDescription(
                            ld.data.expenses[i], args), args, am), args, dt), args)
             IN  Saved(ld, [ld.data EXCEPT !.expenses[i] = exp], 0)

delete_expense(st, id, renameOk) ==
    LET ld == load_data(st, renameOk)
        kept == SelectSeq(ld.data.expenses, LAMBDA e : e.id # id)
    IN  IF ld.raised THEN Ended(ld, "crash")
        ELSE IF Len(kept) = Len(ld.data.expenses) THEN Ended(ld, "notfound")
        ELSE Saved(ld, [ld.data EXCEPT !.expenses = kept], 0)

\* d[key] = value on a dict
SetItem(d, key, value) ==
    [k \in (DOMAIN d) \cup {key} |-> IF k = key THEN value ELSE d[k]]

budget_set(st, month, amount, renameOk) ==
    LET ld == load_data(st, renameOk)
        ym == month_to_ym(month, Today.y)
        am == validate_amount(amount)
    IN  IF ld.raised THEN Ended(ld, "crash")
        ELSE IF ym.err \/ am.err THEN Ended(ld, "invalid")
        ELSE Saved(ld, [ld.data EXCEPT !.budgets = SetItem(@, ym_key(ym.y, ym.m), am.val)], 0)

(***************************************************************************)
(* The query handlers: they load, print, and never call save_data.         *)
(***************************************************************************)
list_expenses(st, category, month, renameOk) ==
    LET ld == load_data(st, renameOk)
    IN  IF ld.raised THEN Ended(ld, "crash")
        ELSE IF filter_expenses(ld.data.expenses, category, month).err
        THEN Ended(ld, "invalid")
        ELSE Ended(ld, "ok")

summary(st, month, renameOk) ==
    LET ld == load_data(st, renameOk)
    IN  IF ld.raised THEN Ended(ld, "crash")
        ELSE IF filter_expenses(ld.data.expenses, None, month).err
        THEN Ended(ld, "invalid")
        ELSE Ended(ld, "ok")

budget_show(st, month, renameOk) ==
    LET ld == load_data(st, renameOk)
    IN  IF ld.raised THEN Ended(ld, "crash")
        ELSE IF ~month.null /\ month_to_ym(month.n, Today.y).err
        THEN Ended(ld, "invalid")
        ELSE Ended(ld, "ok")

\* export_csv writes the rows to the path given by --csv; toDataFile: that path
\* is the primary data file itself.  CSV text is not JSON.
export_csv(st, category, month, toDataFile, renameOk) ==
    LET ld == load_data(st, renameOk)
        res == filter_expenses(ld.data.expenses, category, month)
    IN  IF ld.raised THEN Ended(ld, "crash")
        ELSE IF res.err THEN Ended(ld, "invalid")
        ELSE IF res.val = <<>> \/ ~toDataFile THEN Ended(ld, "ok")
        ELSE [Ended(ld, "ok") EXCEPT !.file = Blob("corrupt")]

\* main: an ArgumentTypeError is caught and printed as "Error: ..."; a not-found
\* id is printed as "Error: Expense ID not found.".
main(r) == [r EXCEPT !.outcome = IF @ = "invalid" THEN "error" ELSE @]

(***************************************************************************)
(* Commands run one after another: each action is one whole process, from  *)
(* load_data to the return of main.  P holds the arguments a specification *)
(* lets the user type.                                                     *)
(***************************************************************************)
Store == [file |-> file, bak |-> bak]

NoCommand == [cmd |-> "none", outcome |-> "ok", saved |-> FALSE, toDataFile |-> FALSE]

\* path.replace(backup) is reached only for a corrupt file
RenameOutcomes == IF file.kind = "corrupt" THEN BOOLEAN ELSE {TRUE}

FilterIdle == [pc |-> "idle", expenses |-> <<>>, category |-> None, month |-> NoAmount,
               out |-> <<>>]

Ran(cmd, r, toDataFile) ==
    /\ file' = r.file
    /\ bak' = r.bak
    /\ last' = [cmd |-> cmd, outcome |-> r.outcome, saved |-> r.saved,
                toDataFile |-> toDataFile]
    /\ assigned' = IF cmd = "add" /\ r.outcome = "ok" THEN assigned \cup {r.id} ELSE assigned
    /\ UNCHANGED <<fl, fs, procs>>

Step(cmd, r) == Ran(cmd, r, FALSE)

Add(P) ==
    \E args \in P.adds, ok \in RenameOutcomes :
        /\ load_data(Store, ok).data.next_id <= P.maxId
        /\ Step("add", main(add_expense(Store, args, ok)))

Update(P) ==
    \E args \in P.updates, ok \in RenameOutcomes :
        Step("update", main(update_expense(Store, args, ok)))

Delete(P) ==
    \E id \in P.ids, ok \in RenameOutcomes :
        Step("delete", main(delete_expense(Store, id, ok)))

BudgetSet(P) ==
    \E month \in P.months, amount \in P.amounts, ok \in RenameOutcomes :
        Step("budget set", main(budget_set(Store, month, amount, ok)))

List(P) ==
    \E category \in P.filters, month \in P.filterMonths, ok \in RenameOutcomes :
        Step("list", main(list_expenses(Store, category, month, ok)))

Summary(P) ==
    \E month \in P.filterMonths, ok \in RenameOutcomes :
        Step("summary", main(summary(Store, month, ok)))

BudgetShow(P) ==
    \E month \in P.filterMonths, ok \in RenameOutcomes :
        Step("budget show", main(budget_show(Store, month, ok)))

Export(P) ==
    \E category \in P.filters, month \in P.filterMonths, toDataFile \in BOOLEAN,
       ok \in RenameOutcomes :
        Ran("export", main(export_csv(Store, category, month, toDataFile, ok)), toDataFile)

(***************************************************************************)
(* Spec: every command, from every kind of backing file.                   *)
(***************************************************************************)
E1 == [id |-> 1, date |-> isoformat(2024, 1, 2), description |-> <<"a">>,
       amount |-> 2, category |-> None]

OtherMonthBudget == SetItem(<<>>, ym_key(2024, 1), 5)

\* JSON objects a user, an older version or an editor may have left: any subset
\* of the three keys, each present key holding a well-formed value.
InitDocs ==
    UNION {
        {[kind |-> "doc", has |-> has,
          next_id |-> IF "next_id" \in has THEN Len(e) + 1 ELSE 0,
          expenses |-> e, budgets |-> b] :
            e \in IF "expenses" \in has THEN {<<>>, <<E1>>} ELSE {<<>>},
            b \in IF "budgets" \in has THEN {<<>>, OtherMonthBudget} ELSE {<<>>}} :
        has \in SUBSET Keys}

InitFiles ==
    {FileAbsent, Blob("corrupt"), Blob("nonobject"), Blob("undecodable")} \cup InitDocs

IdsOf(expenses) == {expenses[i].id : i \in 1..Len(expenses)}

InitStore(files) ==
    /\ file \in files
    /\ bak = FileAbsent
    /\ last = NoCommand
    /\ assigned = IdsOf(file.expenses)
    /\ fl = FilterIdle
    /\ fs = <<>>
    /\ procs = <<>>

Months == {[null |-> TRUE, n |-> 0], [null |-> FALSE, n |-> 3], [null |-> FALSE, n |-> 13]}

PSpec ==
    [maxId |-> MaxId,
     adds |-> [description : {<<"a">>}, amount : {0, 16}, date : {NoDate, GarbageDate},
               category : {None}],
     updates |-> [id : 1..MaxId, description : {None, Str(<<" ", "b">>)},
                  amount : {NoAmount, Amount(0)}, date : {NoDate, GarbageDate},
                  category : {None}],
     ids |-> 1..MaxId,
     months |-> {0, 3, 5},
     amounts |-> {0, 16, 27},
     filters |-> {Str(<<"a">>)},
     filterMonths |-> Months]

Init == InitStore(InitFiles)

Next ==
    \/ Add(PSpec)
    \/ Update(PSpec)
    \/ Delete(PSpec)
    \/ BudgetSet(PSpec)
    \/ List(PSpec)
    \/ Summary(PSpec)
    \/ BudgetShow(PSpec)
    \/ Export(PSpec)

Spec == Init /\ [][Next]_vars

(***************************************************************************)
(* SpecUpdate: add, update and delete with every field taking two values   *)
(* and every combination of supplied and omitted update flags.             *)
(***************************************************************************)
PUpdate ==
    [maxId |-> MaxUpd,
     adds |-> [description : {<<"a">>}, amount : {16}, date : {NoDate},
               category : {Str(<<"a">>)}],
     updates |-> [id : 1..(MaxUpd + 1), description : {None, Str(<<" ", "b">>)},
                  amount : {NoAmount, Amount(0), Amount(27)},
                  date : {NoDate, GarbageDate, Ymd(2024, 1, 2)},
                  category : {None, Str(<<>>), Str(<<"a">>)}],
     ids |-> 1..MaxUpd]

BudgetOnly ==
    [kind |-> "doc", has |-> Keys, next_id |-> 1, expenses |-> <<>>,
     budgets |-> OtherMonthBudget]

InitUpdate == InitStore({BudgetOnly})

NextUpdate ==
    \/ Add(PUpdate)
    \/ Update(PUpdate)
    \/ Delete(PUpdate)

SpecUpdate == InitUpdate /\ [][NextUpdate]_vars

(***************************************************************************)
(* SpecFields: one expense and one budget, with every short text over a    *)
(* space and a letter and every amount from -0.001 to MaxAmount / 1000.    *)
(***************************************************************************)
TypedTexts == Texts({" ", "a"}, MaxStrLen)

TypedAmounts == (0 - 1)..MaxAmount

PFields ==
    [maxId |-> MaxOne,
     adds |-> [description : TypedTexts, amount : TypedAmounts, date : {NoDate},
               category : {None} \cup {Str(t) : t \in TypedTexts}],
     updates |-> [id : 1..MaxOne, description : {None} \cup {Str(t) : t \in TypedTexts},
                  amount : {NoAmount} \cup {Amount(a) : a \in TypedAmounts},
                  date : {NoDate},
                  category : {None} \cup {Str(t) : t \in TypedTexts}],
     months |-> {3},
     amounts |-> TypedAmounts]

InitFields == InitStore({FileAbsent})

NextFields ==
    \/ Add(PFields)
    \/ Update(PFields)
    \/ BudgetSet(PFields)

SpecFields == InitFields /\ [][NextFields]_vars

(***************************************************************************)
(* SpecFilter: one call of filter_expenses on every list of at most        *)
(* MaxList records with distinct ids, every category filter and month.     *)
(***************************************************************************)
FilterRecords ==
    [id : 1..MaxList,
     date : {isoformat(2024, 3, 15), isoformat(2024, 3, 1), isoformat(2024, 1, 2),
             isoformat(2023, 3, 5)},
     description : {<<"a">>},
     amount : {2},
     category : {None, Str(<<"a">>), Str(<<"A">>)}]

FilterLists ==
    UNION {{l \in [1..n -> FilterRecords] : \A i, j \in 1..n : i # j => l[i].id # l[j].id} :
           n \in 0..MaxList}

FilterCategories == {None, Str(<<>>), Str(<<"A">>)}

InitFilter ==
    /\ file = FileAbsent
    /\ bak = FileAbsent
    /\ last = NoCommand
    /\ assigned = {}
    /\ fl \in [pc : {"call"}, expenses : FilterLists, category : FilterCategories,
               month : Months, out : {<<>>}]
    /\ fs = <<>>
    /\ procs = <<>>

FilterCall ==
    /\ fl.pc = "call"
    /\ LET res == filter_expenses(fl.expenses, fl.category, fl.month)
       IN  fl' = [fl EXCEPT !.pc = IF res.err THEN "raised" ELSE "done", !.out = res.val]
    /\ UNCHANGED <<file, bak, last, assigned, fs, procs>>

NextFilter == FilterCall

SpecFilter == InitFilter /\ [][NextFilter]_vars

(***************************************************************************)
(* SpecConc: NProcs command processes run save_data step by step against   *)
(* one directory.  A file is an inode; data.json and data.tmp are names of *)
(* inodes.  A document reaches its file in NParts write() calls.           *)
(***************************************************************************)
Procs == 1..NProcs

Hole == [doc |-> <<0, 0>>, part |-> 0]

\* the bytes of the document tagged doc, as the chunks json.dump writes
CompleteDoc(doc) == [i \in 1..NParts |-> [doc |-> doc, part |-> i]]

\* write(2) of one chunk at offset off of a file holding content
WriteAt(content, off, chunk) ==
    IF off < Len(content)
    THEN [content EXCEPT ![off + 1] = chunk]
    ELSE content \o [i \in 1..(off - Len(content)) |-> Hole] \o <<chunk>>

ProcIdle == [pc |-> "idle", fd |-> 0, off |-> 0, saves |-> 0]

InitConc ==
    /\ file = FileAbsent
    /\ bak = FileAbsent
    /\ last = NoCommand
    /\ assigned = {}
    /\ fl = FilterIdle
    /\ fs \in {[primary |-> 0, tmp |-> 0, inodes |-> <<>>],
               [primary |-> 1, tmp |-> 0, inodes |-> <<CompleteDoc(<<0, 0>>)>>]}
    /\ procs = [p \in Procs |-> ProcIdle]

ConcFrame == UNCHANGED <<file, bak, last, assigned, fl>>

\* a command reaches save_data
SaveBegin(p) ==
    /\ procs[p].pc = "idle"
    /\ procs[p].saves < MaxSaves
    /\ procs' = [procs EXCEPT ![p].pc = "open"]
    /\ UNCHANGED fs
    /\ ConcFrame

\* tmp_path.open("w"): creates data.tmp, or truncates the inode it names
SaveOpen(p) ==
    /\ procs[p].pc = "open"
    /\ IF fs.tmp = 0
       THEN /\ fs' = [fs EXCEPT !.inodes = Append(@, <<>>), !.tmp = Len(fs.inodes) + 1]
            /\ procs' = [procs EXCEPT ![p].pc = "write", ![p].fd = Len(fs.inodes) + 1,
                                      ![p].off = 0]
       ELSE /\ fs' = [fs EXCEPT !.inodes[fs.tmp] = <<>>]
            /\ procs' = [procs EXCEPT ![p].pc = "write", ![p].fd = fs.tmp, ![p].off = 0]
    /\ ConcFrame

\* json.dump(data, f, indent=2), one write() at the descriptor's offset; the
\* last one is the flush of close()
SaveWrite(p) ==
    /\ procs[p].pc = "write"
    /\ LET me == procs[p]
           chunk == [doc |-> <<p, me.saves + 1>>, part |-> me.off + 1]
       IN  /\ fs' = [fs EXCEPT !.inodes[me.fd] = WriteAt(@, me.off, chunk)]
           /\ procs' = [procs EXCEPT ![p].off = me.off + 1,
                                     ![p].pc = IF me.off + 1 = NParts THEN "rename"
                                               ELSE "write"]
    /\ ConcFrame

\* tmp_path.replace(path)
SaveRename(p) ==
    /\ procs[p].pc = "rename"
    /\ IF fs.tmp = 0
       THEN \* FileNotFoundError
            /\ procs' = [procs EXCEPT ![p].pc = "crashed"]
            /\ UNCHANGED fs
       ELSE /\ fs' = [fs EXCEPT !.primary = fs.tmp, !.tmp = 0]
            /\ procs' = [procs EXCEPT ![p].pc = "idle", ![p].saves = @ + 1]
    /\ ConcFrame

\* the process dies inside save_data
SaveCrash(p) ==
    /\ procs[p].pc \in {"write", "rename"}
    /\ procs' = [procs EXCEPT ![p].pc = "crashed"]
    /\ UNCHANGED fs
    /\ ConcFrame

NextConc ==
    \E p \in Procs :
        \/ SaveBegin(p)
        \/ SaveOpen(p)
        \/ SaveWrite(p)
        \/ SaveRename(p)
        \/ SaveCrash(p)

SpecConc == InitConc /\ [][NextConc]_vars

(***************************************************************************)
(* Properties of the sequential store.                                     *)
(***************************************************************************)
Mutators == {"add", "update", "delete", "budget set"}

Queries == {"list", "summary", "budget show", "export"}

Failed == {"error", "notfound"}

\* The document a file holds, as its reader understands it: a missing key
\* stands for its default; a file that is no JSON object holds no document.
ViewOf(f) ==
    IF f.kind = "doc"
    THEN [doc |-> TRUE,
          next_id |-> IF "next_id" \in f.has THEN f.next_id ELSE 1,
          expenses |-> IF "expenses" \in f.has THEN f.expenses ELSE <<>>,
          budgets |-> IF "budgets" \in f.has THEN f.budgets ELSE <<>>]
    ELSE [doc |-> FALSE, next_id |-> 1, expenses |-> <<>>, budgets |-> <<>>]

Trimmed(s) == s = <<>> \/ (s[1] \notin Whitespace /\ s[Len(s)] \notin Whitespace)

TwoDigits(n) == <<Digits[(n \div 10) + 1], Digits[(n % 10) + 1]>>

\* the YYYY-MM key of a month of the current year, written out digit by digit
KeyOfMonth(m) == TwoDigits(Today.y \div 100) \o TwoDigits(Today.y % 100) \o <<"-">> \o TwoDigits(m)

\* v (hundredths) is a (thousandths) rounded to two decimals
IsRounded(v, a) == 10 * v - a \in (0 - 5)..5

\* C1: in every document a command has saved, next_id is strictly greater than
\* every id in expenses and than every id an add ever assigned (so no id is
\* handed out twice), and the ids in expenses are pairwise distinct.
C1_NextIdAboveEveryId ==
    last.saved =>
        /\ file.kind = "doc"
        /\ \A id \in IdsOf(file.expenses) \cup assigned : file.next_id > id
        /\ \A i, j \in 1..Len(file.expenses) :
              i # j => file.expenses[i].id # file.expenses[j].id

\* C2: no document holds an expense amount or a budget amount that is <= 0:
\* validate_amount rejects or returns a value > 0.
C2_StoredAmountsPositive ==
    file.kind = "doc" =>
        /\ \A i \in 1..Len(file.expenses) : file.expenses[i].amount > 0
        /\ \A k \in DOMAIN file.budgets : file.budgets[k] > 0

\* C4: a mutating command that ends by reporting an error (a validation failure
\* or an id that is not found) never reached save_data and left the persisted
\* document as it was; unless the file was corrupt, the file itself is untouched.
C4_ErrorLeavesDocument ==
    [][(last'.cmd \in Mutators /\ last'.outcome \in Failed) =>
            /\ ~last'.saved
            /\ ViewOf(file') = ViewOf(file)
            /\ (file.kind # "corrupt" => file' = file)]_vars

C4_Witness ==
    /\ last.cmd = "update"
    /\ last.outcome = "error"
    /\ Len(file.expenses) >= 2

\* C5: whatever the file holds, load_data raises nothing; an absent file gives
\* the default document; a file that is not a JSON object gives the default
\* document and is moved aside to .bak when the rename succeeds; a JSON object
\* gives its keys, each missing key backfilled with its default.
C5_LoadNeverRaises ==
    \A ok \in BOOLEAN :
        LET ld == load_data(Store, ok) IN
        /\ ~ld.raised
        /\ file.kind = "absent" => ld.data = DefaultData /\ ld.file = file
        /\ file.kind \in {"corrupt", "nonobject", "undecodable"} =>
              /\ ld.data = DefaultData
              /\ ok => ld.file = FileAbsent /\ ld.bak = file
        /\ file.kind = "doc" =>
              /\ ld.data.next_id = ViewOf(file).next_id
              /\ ld.data.expenses = ViewOf(file).expenses
              /\ ld.data.budgets = ViewOf(file).budgets

\* C6: in every document each description is non-empty and trimmed, and each
\* category is null or a non-empty trimmed text.
C6_TextFieldsTrimmedNonEmpty ==
    file.kind = "doc" =>
        \A i \in 1..Len(file.expenses) :
            LET e == file.expenses[i] IN
            /\ e.description # <<>>
            /\ Trimmed(e.description)
            /\ e.category.null \/ (e.category.s # <<>> /\ Trimmed(e.category.s))

\* C7: a successful update of id X leaves next_id, budgets, the length of
\* expenses and every record at another position as they were; the record of X
\* keeps its position, its id and every field whose flag was omitted; a category
\* flag holding the empty string makes the category null.
C7_UpdateChangesOnlySupplied ==
    \A args \in PUpdate.updates, ok \in RenameOutcomes :
        LET r == update_expense(Store, args, ok)
            old == ViewOf(file)
            new == r.file
        IN  r.outcome = "ok" =>
            /\ r.saved
            /\ new.kind = "doc"
            /\ new.next_id = old.next_id
            /\ new.budgets = old.budgets
            /\ Len(new.expenses) = Len(old.expenses)
            /\ \E p \in 1..Len(old.expenses) :
                  /\ old.expenses[p].id = args.id
                  /\ new.expenses[p].id = args.id
                  /\ \A i \in 1..Len(old.expenses) :
                        i # p => new.expenses[i] = old.expenses[i]
                  /\ args.description.null =>
                        new.expenses[p].description = old.expenses[p].description
                  /\ args.amount.null => new.expenses[p].amount = old.expenses[p].amount
                  /\ args.date.kind = "none" => new.expenses[p].date = old.expenses[p].date
                  /\ args.category.null =>
                        new.expenses[p].category = old.expenses[p].category
                  /\ args.category = Str(<<>>) => new.expenses[p].category = None

C7_Witness ==
    /\ last.cmd = "update"
    /\ last.outcome = "ok"
    /\ Len(file.expenses) = 2
    /\ file.expenses[1].category = Str(<<"a">>)
    /\ file.expenses[2].category = None
    /\ file.expenses[2].description = <<"a">>

\* C9: on a store load_data reads (no file, a corrupt file or a JSON object),
\* budget set for a month M in 1..12 with an amount A > 0 saves a document
\* whose budgets hold A rounded to two decimals under the current year's
\* YYYY-MM key of M, every other key as before, and the same expenses and
\* next_id; running it again on the result changes nothing.
C9_BudgetSetOverwritesOneKey ==
    \A month \in 1..12, amount \in PSpec.amounts, ok \in RenameOutcomes :
        LET r == budget_set(Store, month, amount, ok)
            old == ViewOf(file)
            key == KeyOfMonth(month)
        IN  (amount > 0 /\ file.kind \in {"absent", "corrupt", "doc"}) =>
            /\ r.outcome = "ok"
            /\ r.file.kind = "doc"
            /\ DOMAIN r.file.budgets = (DOMAIN old.budgets) \cup {key}
            /\ IsRounded(r.file.budgets[key], amount)
            /\ \A k \in DOMAIN old.budgets : k # key => r.file.budgets[k] = old.budgets[k]
            /\ r.file.expenses = old.expenses
            /\ r.file.next_id = old.next_id
            /\ budget_set([file |-> r.file, bak |-> r.bak], month, amount, ok).file = r.file

C9_Witness ==
    /\ last.cmd = "budget set"
    /\ last.outcome = "ok"
    /\ Cardinality(DOMAIN file.budgets) = 3
    /\ Len(file.expenses) >= 1

CasePairs == {{"a", "A"}, {"b", "B"}}

EqIgnoreCase(s, t) ==
    /\ Len(s) = Len(t)
    /\ \A i \in 1..Len(s) : s[i] = t[i] \/ {s[i], t[i]} \in CasePairs

DigitValue(c) == CHOOSE d \in 0..9 : Digits[d + 1] = c

\* the number a run of decimal digits denotes
RECURSIVE Number(_)
Number(s) ==
    IF s = <<>> THEN 0 ELSE 10 * Number(SubSeq(s, 1, Len(s) - 1)) + DigitValue(s[Len(s)])

\* the YYYY-MM-DD text lies in month m of year y
InMonth(date, y, m) == Number(SubSeq(date, 1, 4)) = y /\ Number(SubSeq(date, 6, 7)) = m

Count(seq, e) == Cardinality({i \in 1..Len(seq) : seq[i] = e})

\* out holds exactly the records of the input that lie in wanted, each as often
\* as the input does, ascending by (date text, id)
ExactlySorted(wanted) ==
    /\ \A i \in 1..Len(fl.out) : Count(fl.expenses, fl.out[i]) > 0
    /\ \A i \in 1..Len(fl.expenses) :
          Count(fl.out, fl.expenses[i]) =
              IF fl.expenses[i] \in wanted THEN Count(fl.expenses, fl.expenses[i]) ELSE 0
    /\ \A i, j \in 1..Len(fl.out) : i < j => ~KeyLess(fl.out[j], fl.out[i])

MonthWanted(e) == fl.month.null \/ InMonth(e.date, Today.y, fl.month.n)

GivenRecords == {fl.expenses[i] : i \in 1..Len(fl.expenses)}

\* a month in 1..12 is accepted
MonthAccepted ==
    (fl.pc = "call" /\ (fl.month.null \/ fl.month.n \in 1..12)) =>
        ~filter_expenses(fl.expenses, fl.category, fl.month).err

\* the records C8 as stated selects: a category filter that is given, the empty
\* string included, keeps the records whose non-null category equals it
\* ignoring case
WantedAsStated ==
    {e \in GivenRecords :
        /\ fl.category.null \/ (~e.category.null /\ EqIgnoreCase(e.category.s, fl.category.s))
        /\ MonthWanted(e)}

\* C8 as stated: filter_expenses returns exactly the records whose non-null
\* category equals the given category ignoring case and whose date lies in the
\* given month of the current year, none added, dropped or duplicated, ascending
\* by (date text, id).
C8_FilterExact ==
    /\ MonthAccepted
    /\ fl.pc = "done" => ExactlySorted(WantedAsStated)

\* the records C8 as amended selects: only a non-empty category filter selects;
\* an empty string filters nothing, like an absent one
WantedNonEmpty ==
    {e \in GivenRecords :
        /\ \/ fl.category.null
           \/ fl.category.s = <<>>
           \/ ~e.category.null /\ EqIgnoreCase(e.category.s, fl.category.s)
        /\ MonthWanted(e)}

\* C8 as amended: as C8, for a category filter that is a non-empty string; an
\* empty string as category filter selects every record, like no filter.
C8_FilterExactNonEmptyCategory ==
    /\ MonthAccepted
    /\ fl.pc = "done" => ExactlySorted(WantedNonEmpty)

C8_Witness ==
    /\ fl.pc = "done"
    /\ fl.category = Str(<<"A">>)
    /\ fl.month = Amount(3)
    /\ Len(fl.expenses) = 2
    /\ Len(fl.out) = 2
    /\ fl.out[1].category = Str(<<"a">>)
    /\ fl.out[1] = fl.expenses[2]

(***************************************************************************)
(* Properties of the concurrent save.                                      *)
(***************************************************************************)
\* C3: the primary data file is always absent or holds one complete document
\* written by a single save.
C3_PrimaryAlwaysComplete ==
    fs.primary # 0 =>
        \E p \in 0..NProcs, k \in 0..MaxSaves : fs.inodes[fs.primary] = CompleteDoc(<<p, k>>)

====
